---- MODULE Spec2Model ----
(***************************************************************************)
(* Task Manager API (src/main.py): the request handlers, the in-process    *)
(* cache they share and the remote n8n agent they call.                    *)
(*                                                                         *)
(* Every handler is an `async def` with one `await` (the remote call), so  *)
(* a handler runs as two atomic steps, Start (up to the await) and Finish  *)
(* (from the await on); the remote agent handles the call in between.      *)
(* app/services/cache_service.py, app/services/n8n_service.py and          *)
(* app/models.py are not among the sources: CacheService, the failure of   *)
(* N8NService.send_message and the request validation are modelled from    *)
(* the specification (sections 4.1, 4.2, 4.3).                             *)
(***************************************************************************)
EXTENDS Integers, Sequences, FiniteSets, TLC

VARIABLES
    cache,      \* CacheService: key -> [value, expires_at], a dict (DOMAIN = keys held)
    now,        \* the clock, in seconds
    reqs,       \* request slot -> the request in flight in it and where its handler is
    reply,      \* the request answered last, with its response
    calls,      \* history: how many calls the remote agent has handled
    fetchedAt,  \* history: the call that fetched the snapshot held under "all_tasks"
    storedFor,  \* history: the status_filter of the list request that stored that snapshot
    lastMut,    \* history: the call of the latest create/update/delete answered with success
    ret         \* the latest direct CacheService call and what it returned

vars == <<cache, now, reqs, reply, calls, fetchedAt, storedFor, lastMut, ret>>

----------------------------------------------------------------------------
(* Bounds *)

MaxReqs == 2        \* requests handled concurrently
MaxCalls == 2       \* remote calls in one run
MaxTasks == 1       \* tasks in one list the remote returns
MaxTime == 60       \* the clock stops here
TickStep == 60      \* the clock advances by this much
MaxStatTasks == 6    \* tasks in one list the statistics are computed over

Slots == 1..MaxReqs

----------------------------------------------------------------------------
(* Values *)

NoneS == "<None>"                   \* Python None in an Optional[str] field
Falsy(s) == s = NoneS \/ s = ""     \* `if s:` fails

None == [some |-> FALSE]            \* Python None as a returned value
Some(v) == [some |-> TRUE, value |-> v]

Statuses == {"TODO", "IN PROGRESS", "DONE"}
Task == [status : Statuses]

RECURSIVE SeqsUpTo(_, _)
SeqsUpTo(S, n) ==
    IF n = 0 THEN {<<>>}
    ELSE LET shorter == SeqsUpTo(S, n - 1)
         IN shorter \cup {Append(s, x) : s \in {t \in shorter : Len(t) = n - 1}, x \in S}

TaskLists == SeqsUpTo(Task, MaxTasks)

----------------------------------------------------------------------------
(* CacheService *)

ALL_TASKS == "all_tasks"
Keys == {ALL_TASKS, "test_key"}

CacheSet_KeepOld(c, k, v, ttl, t) ==
    IF k \in DOMAIN c THEN c
    ELSE [x \in DOMAIN c \cup {k} |->
            IF x = k THEN [value |-> v, expires_at |-> t + ttl] ELSE c[x]]

\* set: stores value under key with expires_at = now + ttl, over any entry held
CacheSet(c, k, v, ttl, t) ==
    [x \in DOMAIN c \cup {k} |->
        IF x = k THEN [value |-> v, expires_at |-> t + ttl] ELSE c[x]]

CacheLive_AtExpiry(c, k, t) == k \in DOMAIN c /\ t <= c[k].expires_at

CacheLive(c, k, t) == k \in DOMAIN c /\ t < c[k].expires_at

CacheGet(c, k, t) == IF CacheLive(c, k, t) THEN Some(c[k].value) ELSE None

CacheDelete_All(c, k) == <<>>

CacheDelete(c, k) == [x \in DOMAIN c \ {k} |-> c[x]]

\* get may evict the entry it finds expired
CacheAfterGet(c, k, t) ==
    IF k \in DOMAIN c /\ ~CacheLive(c, k, t) THEN {c, CacheDelete(c, k)} ELSE {c}

CacheClear(c) == <<>>

----------------------------------------------------------------------------
(* The state after construction *)

Idle == [pc |-> "idle"]
NoStore == "<no entry>"
NoReply == [op |-> "none"]

Init ==
    /\ cache = <<>>
    /\ now = 0
    /\ reqs = [r \in Slots |-> Idle]
    /\ reply = NoReply
    /\ calls = 0
    /\ fetchedAt = 0
    /\ storedFor = NoStore
    /\ lastMut = 0
    /\ ret = [op |-> "init"]

\* time passes
Tick ==
    /\ now + TickStep <= MaxTime
    /\ now' = now + TickStep
    /\ UNCHANGED <<cache, reqs, reply, calls, fetchedAt, storedFor, lastMut, ret>>

----------------------------------------------------------------------------
(* CacheService called directly, as src/test.py TestCacheService does *)

ListTTL == 60
TTLs == {0 - TickStep, 0, TickStep, ListTTL}

\* the values stored: the cache never looks into them
TestValues == {<<>>, <<[status |-> "TODO"]>>, <<[status |-> "DONE"]>>}

server == <<reqs, reply, calls, fetchedAt, storedFor, lastMut>>

\* what the cache holds under k: "absent", "live" or "expired"
Holding(c, k, t) ==
    IF k \notin DOMAIN c THEN "absent"
    ELSE IF CacheLive(c, k, t) THEN "live" ELSE "expired"

\* the previous call, as the next call's record remembers it
Brief(call) ==
    IF call.op = "set" THEN [op |-> "set", key |-> call.key, value |-> call.value,
                             ttl |-> call.ttl, over |-> call.over]
    ELSE IF call.op = "delete" THEN [op |-> "delete", key |-> call.key, prior |-> call.prior]
    ELSE IF call.op = "force" THEN [op |-> "force", key |-> call.key]
    ELSE [op |-> call.op]

TestSet(k, v, ttl) ==
    /\ cache' = CacheSet(cache, k, v, ttl, now)
    /\ ret' = [op |-> "set", key |-> k, value |-> v, ttl |-> ttl,
               over |-> k \in DOMAIN cache /\ cache[k].value # v]
    /\ UNCHANGED <<now, server>>

TestGet(k) ==
    /\ cache' \in CacheAfterGet(cache, k, now)
    /\ ret' = [op |-> "get", key |-> k, out |-> CacheGet(cache, k, now),
               at |-> now,
               exp |-> IF k \in DOMAIN cache THEN Some(cache[k].expires_at) ELSE None,
               after |-> Brief(ret)]
    /\ UNCHANGED <<now, server>>

TestDelete(k) ==
    /\ cache' = CacheDelete(cache, k)
    /\ ret' = [op |-> "delete", key |-> k, prior |-> Holding(cache, k, now)]
    /\ UNCHANGED <<now, server>>

TestClear ==
    /\ cache' = CacheClear(cache)
    /\ ret' = [op |-> "clear"]
    /\ UNCHANGED <<now, server>>

\* cache.expiry[k] = datetime.utcnow() - timedelta(seconds=1)
TestForceExpiry(k) ==
    /\ k \in DOMAIN cache
    /\ cache' = [cache EXCEPT ![k].expires_at = now - 1]
    /\ ret' = [op |-> "force", key |-> k]
    /\ UNCHANGED <<now, server>>

\* time passes between two calls
TestTick ==
    /\ now + TickStep <= MaxTime
    /\ now' = now + TickStep
    /\ ret' = [op |-> "tick"]
    /\ UNCHANGED <<cache, server>>

CacheNext ==
    \/ \E k \in Keys, v \in TestValues, ttl \in TTLs : TestSet(k, v, ttl)
    \/ \E k \in Keys : TestGet(k)
    \/ \E k \in Keys : TestDelete(k)
    \/ \E k \in Keys : TestForceExpiry(k)
    \/ TestClear
    \/ TestTick

CacheSpec == Init /\ [][CacheNext]_vars

----------------------------------------------------------------------------
(* The remote agent behind N8NService.send_message: opaque, slow and fallible *)

RemoteError == [kind |-> "error"]       \* send_message raises
NoResp == [kind |-> "none"]             \* send_message was not called

Responses ==
    {[kind |-> "tasks", tasks |-> tl] : tl \in TaskLists}
        \cup {[kind |-> "success", success |-> b] : b \in BOOLEAN}

Outcomes == Responses \cup {RemoteError}

\* response.get("tasks", [])
TasksOf(resp) == IF resp.kind = "tasks" THEN resp.tasks ELSE <<>>

----------------------------------------------------------------------------
(* The instructions sent to the remote agent, as the pieces of the f-string *)

ListMessage(status_filter) ==
    IF Falsy(status_filter) THEN <<"Show me all tasks">>
    ELSE <<"Show me all tasks with status ", status_filter>>

CreateMessage_DeadlineFirst(task) ==
    <<"Create a new task called '", task.task_name, "'">>
        \o (IF Falsy(task.deadline) THEN <<>> ELSE <<" with deadline '", task.deadline, "'">>)
        \o (IF Falsy(task.status) THEN <<>> ELSE <<" with status '", task.status, "'">>)
        \o (IF Falsy(task.description) THEN <<>>
            ELSE <<" and description '", task.description, "'">>)

CreateMessage(task) ==
    <<"Create a new task called '", task.task_name, "'">>
        \o (IF Falsy(task.status) THEN <<>> ELSE <<" with status '", task.status, "'">>)
        \o (IF Falsy(task.description) THEN <<>>
            ELSE <<" and description '", task.description, "'">>)
        \o (IF Falsy(task.deadline) THEN <<>> ELSE <<" with deadline '", task.deadline, "'">>)

UpdateClauses_KeepEmpty(u) ==
    (IF u.status = NoneS THEN <<>> ELSE << <<"status to '", u.status, "'">> >>)
        \o (IF u.description = NoneS THEN <<>>
            ELSE << <<"description to '", u.description, "'">> >>)
        \o (IF u.deadline = NoneS THEN <<>> ELSE << <<"deadline to '", u.deadline, "'">> >>)

\* updates: one clause per field that is not None and not empty
UpdateClauses(u) ==
    (IF Falsy(u.status) THEN <<>> ELSE << <<"status to '", u.status, "'">> >>)
        \o (IF Falsy(u.description) THEN <<>>
            ELSE << <<"description to '", u.description, "'">> >>)
        \o (IF Falsy(u.deadline) THEN <<>> ELSE << <<"deadline to '", u.deadline, "'">> >>)

\* ", ".join(updates)
RECURSIVE Join(_)
Join(clauses) ==
    IF clauses = <<>> THEN <<>>
    ELSE IF Len(clauses) = 1 THEN Head(clauses)
    ELSE Head(clauses) \o <<", ">> \o Join(Tail(clauses))

UpdateMessage(task_name, u) ==
    <<"Update the task '", task_name, "'", " - change ">> \o Join(UpdateClauses(u))

DeleteMessage(task_name) == <<"Delete the task '", task_name, "' - yes, I'm sure">>

STATS_MESSAGE_Done == <<"Show me all tasks with status ", "DONE">>

\* get_task_stats: "Show me all tasks"
STATS_MESSAGE == <<"Show me all tasks">>

----------------------------------------------------------------------------
(* Free-form messages, letter by letter *)

UpperCase == <<"A", "B", "C", "D", "E", "F", "G", "H", "I", "J", "K", "L", "M",
               "N", "O", "P", "Q", "R", "S", "T", "U", "V", "W", "X", "Y", "Z">>
LowerCase == <<"a", "b", "c", "d", "e", "f", "g", "h", "i", "j", "k", "l", "m",
               "n", "o", "p", "q", "r", "s", "t", "u", "v", "w", "x", "y", "z">>

\* str.lower()
Lower(text) ==
    [i \in 1..Len(text) |->
        IF \E j \in 1..26 : UpperCase[j] = text[i]
        THEN LowerCase[CHOOSE j \in 1..26 : UpperCase[j] = text[i]]
        ELSE text[i]]

\* keyword in text
Contains(text, keyword) ==
    \E i \in 1..(Len(text) - Len(keyword) + 1) :
        SubSeq(text, i, i + Len(keyword) - 1) = keyword

action_keywords ==
    << <<"c", "r", "e", "a", "t", "e">>, <<"u", "p", "d", "a", "t", "e">>,
       <<"d", "e", "l", "e", "t", "e">>, <<"a", "d", "d">>,
       <<"r", "e", "m", "o", "v", "e">>, <<"c", "h", "a", "n", "g", "e">> >>

\* any(keyword in message.lower() for keyword in action_keywords)
MightChangeData(text) ==
    \E n \in 1..Len(action_keywords) : Contains(Lower(text), action_keywords[n])

----------------------------------------------------------------------------
(* What the clients send *)

Filters == {NoneS, "TODO"}

CreateBodies ==
    { [task_name |-> "", status |-> "TODO", description |-> NoneS, deadline |-> NoneS],
      [task_name |-> "T1", status |-> "TODO", description |-> NoneS, deadline |-> NoneS],
      [task_name |-> "T1", status |-> NoneS, description |-> "", deadline |-> "2025-12-31"],
      [task_name |-> "T1", status |-> "DONE", description |-> "d1",
       deadline |-> "2025-12-31"] }

UpdateBodies ==
    { [status |-> NoneS, description |-> NoneS, deadline |-> NoneS],
      [status |-> NoneS, description |-> "", deadline |-> NoneS],
      [status |-> "DONE", description |-> NoneS, deadline |-> NoneS],
      [status |-> "IN PROGRESS", description |-> "d1", deadline |-> "2025-12-31"] }

TaskNames == {"T1"}

Texts ==
    { <<"s", "h", "o", "w">>,                   \* no keyword
      <<"u", "p", "d", "a", "t">>,              \* no keyword: all but one letter of one
      <<"D", "E", "L", "E", "T", "E">>,         \* a keyword in capitals
      <<"p", "A", "d", "d", "e", "d">> }        \* a keyword inside a word

----------------------------------------------------------------------------
(* Responses *)

TaskListResponse(tasks, fetched) ==
    [status |-> 200, tasks |-> tasks, count |-> Len(tasks), fetched |-> fetched]

TaskResponse(code, data) == [status |-> code, success |-> TRUE, data |-> data]

MessageResponse(response) == [status |-> 200, response |-> response]

HTTPException(code) == [status |-> code]

\* except Exception: raise HTTPException(500), in each handler
GetTasksError_Empty == TaskListResponse(<<>>, 0)

GetTasksError == HTTPException(500)

CreateTaskError == HTTPException(500)

UpdateTaskError == HTTPException(500)

DeleteTaskError == HTTPException(500)

SendMessageError == HTTPException(500)

GetTaskStatsError == HTTPException(500)

\* task.dict()
CreateEcho(task) == task

UpdateEcho_AllFields(task_name, u) ==
    [f \in {"task_name"} \cup DOMAIN u |-> IF f = "task_name" THEN task_name ELSE u[f]]

\* {"task_name": task_name, **task_update.dict(exclude_none=True)}
UpdateEcho(task_name, u) ==
    [f \in {"task_name"} \cup {g \in DOMAIN u : u[g] # NoneS} |->
        IF f = "task_name" THEN task_name ELSE u[f]]

DeleteEcho(task_name) == [task_name |-> task_name]

----------------------------------------------------------------------------
(* Statistics *)

CountStatus(tasks, st) == Cardinality({i \in 1..Len(tasks) : tasks[i].status = st})

Round2_Truncate(num, den) == (num * 10000) \div den

\* round(x, 2) of x = num / den * 100, in hundredths; a tie goes to the even digit
Round2(num, den) ==
    LET q == (num * 10000) \div den
        twice == 2 * ((num * 10000) % den)
    IN IF twice > den \/ (twice = den /\ q % 2 = 1) THEN q + 1 ELSE q

Stats(tasks) ==
    LET total == Len(tasks)
        by == [st \in Statuses |-> CountStatus(tasks, st)]
    IN [status |-> 200, total_tasks |-> total, by_status |-> by,
        completion_rate |-> IF total > 0 THEN Round2(by["DONE"], total) ELSE 0]

----------------------------------------------------------------------------
(* The statistics computed over every list the remote agent may return *)

\* t.get("status"): one of the three statuses, another one, or none
StatTask == [status : Statuses \cup {"BLOCKED", NoneS}]
StatTaskLists == SeqsUpTo(StatTask, MaxStatTasks)

StatsInit ==
    /\ cache = <<>>
    /\ now = 0
    /\ reqs = [r \in Slots |-> Idle]
    /\ reply = NoReply
    /\ calls = 0
    /\ fetchedAt = 0
    /\ storedFor = NoStore
    /\ lastMut = 0
    /\ \E tasks \in StatTaskLists : ret = [op |-> "tasks", tasks |-> tasks]

\* get_task_stats from `tasks = response.get("tasks", [])` to `return stats`
ComputeStats ==
    /\ ret.op = "tasks"
    /\ ret' = [op |-> "stats", tasks |-> ret.tasks, out |-> Stats(ret.tasks)]
    /\ UNCHANGED <<cache, now, server>>

StatsNext == ComputeStats

StatsSpec == StatsInit /\ [][StatsNext]_vars

----------------------------------------------------------------------------
(* The instructions built from every request body, its fields given in any order *)

OptionalFields == {"status", "description", "deadline"}

\* the values a body may give a field: null, the empty string, a value
GivenValues ==
    [status |-> {NoneS, "", "DONE"}, description |-> {NoneS, "", "d1"},
     deadline |-> {NoneS, "", "2025-12-31"}]

\* a JSON body: <<field, value>> pairs, each field at most once, in the client's order
Bodies ==
    {b \in SeqsUpTo(OptionalFields \X {NoneS, "", "DONE", "d1", "2025-12-31"}, 3) :
        /\ \A i \in 1..Len(b) : b[i][2] \in GivenValues[b[i][1]]
        /\ \A i, j \in 1..Len(b) : b[i][1] = b[j][1] => i = j}

Gives(body, f) == \E i \in 1..Len(body) : body[i][1] = f

\* the field as the request model holds it: the value given, else the default
Field(body, f, default) ==
    IF Gives(body, f) THEN body[CHOOSE i \in 1..Len(body) : body[i][1] = f][2] ELSE default

\* TaskCreate(**body): status defaults to TODO, description and deadline to None
TaskCreateOf(task_name, body) ==
    [task_name |-> task_name, status |-> Field(body, "status", "TODO"),
     description |-> Field(body, "description", NoneS),
     deadline |-> Field(body, "deadline", NoneS)]

\* TaskUpdate(**body): every field defaults to None
TaskUpdateOf(body) == [f \in OptionalFields |-> Field(body, f, NoneS)]

MsgInit ==
    /\ cache = <<>>
    /\ now = 0
    /\ reqs = [r \in Slots |-> Idle]
    /\ reply = NoReply
    /\ calls = 0
    /\ fetchedAt = 0
    /\ storedFor = NoStore
    /\ lastMut = 0
    /\ \E n \in TaskNames, b \in Bodies : ret = [op |-> "body", task_name |-> n, body |-> b]

\* create_task up to its await
BuildCreate ==
    /\ ret.op = "body"
    /\ ret' = [op |-> "create", task_name |-> ret.task_name, body |-> ret.body,
               message |-> CreateMessage(TaskCreateOf(ret.task_name, ret.body))]
    /\ UNCHANGED <<cache, now, server>>

\* update_task up to its await, which a body with no field to update does not reach
BuildUpdate ==
    /\ ret.op = "body"
    /\ UpdateClauses(TaskUpdateOf(ret.body)) # <<>>
    /\ ret' = [op |-> "update", task_name |-> ret.task_name, body |-> ret.body,
               message |-> UpdateMessage(ret.task_name, TaskUpdateOf(ret.body))]
    /\ UNCHANGED <<cache, now, server>>

\* delete_task up to its await
BuildDelete ==
    /\ ret.op = "body"
    /\ ret' = [op |-> "delete", task_name |-> ret.task_name, body |-> ret.body,
               message |-> DeleteMessage(ret.task_name)]
    /\ UNCHANGED <<cache, now, server>>

MsgNext == BuildCreate \/ BuildUpdate \/ BuildDelete

MsgSpec == MsgInit /\ [][MsgNext]_vars

----------------------------------------------------------------------------
(* Request slots *)

Free(r) == reqs[r].pc = "idle"

\* the handler has issued `await n8n_service.send_message(message)`
Awaiting(op, args, message, seen) ==
    [pc |-> "awaiting", op |-> op, args |-> args, message |-> message, seen |-> seen,
     tag |-> 0]

\* the handler has answered without calling the remote agent
Answered(op, args, seen, result) ==
    [op |-> op, args |-> args, message |-> <<>>, called |-> FALSE, seen |-> seen,
     resp |-> NoResp, result |-> result]

\* the handler has answered after its remote call returned resp or raised
Finished(req, resp, result) ==
    [op |-> req.op, args |-> req.args, message |-> req.message, called |-> TRUE,
     seen |-> req.seen, resp |-> resp, result |-> result]

Max(a, b) == IF a >= b THEN a ELSE b

\* history: the filter of the storing request lives as long as the entry
StoredFor(c, f) == IF ALL_TASKS \in DOMAIN c THEN f ELSE NoStore

\* history: the snapshot's call number lives as long as the entry
Tagged(c, tag) == IF ALL_TASKS \in DOMAIN c THEN tag ELSE 0

\* the remote agent handles the call of request r; what it answers, or that the
\* call failed, is known when the handler resumes
RemoteHandle(r) ==
    /\ reqs[r].pc = "awaiting"
    /\ calls < MaxCalls
    /\ calls' = calls + 1
    /\ reqs' = [reqs EXCEPT ![r].pc = "replied", ![r].tag = calls + 1]
    /\ UNCHANGED <<cache, now, reply, fetchedAt, storedFor, lastMut, ret>>

\* the handler of slot r suspends at its await
Suspend(r, req) == reqs' = [reqs EXCEPT ![r] = req] /\ UNCHANGED reply

\* the handler of slot r answers: `done` is the request with its response
Answer(r, done) == reqs' = [reqs EXCEPT ![r] = Idle] /\ reply' = done

----------------------------------------------------------------------------
(* GET /api/v1/tasks *)

\* `if cached_tasks:`
Truthy(cached) == cached.some /\ cached.value # <<>>

StoreTasks_NoExpiry(c, tasks, t) == CacheSet(c, ALL_TASKS, tasks, 2 * ListTTL, t)

\* cache_service.set("all_tasks", tasks, ttl=60)
StoreTasks(c, tasks, t) == CacheSet(c, ALL_TASKS, tasks, ListTTL, t)

\* a request with a filter goes past the cache
GetTasksStart_FilterSkipsCache(r, status_filter, use_cache) ==
    /\ Free(r)
    /\ LET args == [status_filter |-> status_filter, use_cache |-> use_cache]
           look == use_cache /\ Falsy(status_filter)
           cached == IF look THEN CacheGet(cache, ALL_TASKS, now) ELSE None
       IN /\ cache' \in (IF look THEN CacheAfterGet(cache, ALL_TASKS, now) ELSE {cache})
          /\ IF look /\ Truthy(cached)
             THEN Answer(r, Answered("list", args, lastMut,
                                     TaskListResponse(cached.value, fetchedAt)))
             ELSE Suspend(r, Awaiting("list", args, ListMessage(status_filter), lastMut))
    /\ fetchedAt' = Tagged(cache', fetchedAt)
    /\ storedFor' = StoredFor(cache', storedFor)
    /\ UNCHANGED <<now, calls, lastMut, ret>>

GetTasksStart(r, status_filter, use_cache) ==
    /\ Free(r)
    /\ LET args == [status_filter |-> status_filter, use_cache |-> use_cache]
           cached == IF use_cache THEN CacheGet(cache, ALL_TASKS, now) ELSE None
       IN /\ cache' \in (IF use_cache THEN CacheAfterGet(cache, ALL_TASKS, now) ELSE {cache})
          /\ IF use_cache /\ Truthy(cached)
             THEN Answer(r, Answered("list", args, lastMut,
                                     TaskListResponse(cached.value, fetchedAt)))
             ELSE Suspend(r, Awaiting("list", args, ListMessage(status_filter), lastMut))
    /\ fetchedAt' = Tagged(cache', fetchedAt)
    /\ storedFor' = StoredFor(cache', storedFor)
    /\ UNCHANGED <<now, calls, lastMut, ret>>

\* a failed fetch stored as an empty list
GetTasksFinish_StoreOnError(r, resp) ==
    /\ reqs[r].pc = "replied" /\ reqs[r].op = "list"
    /\ LET tasks == TasksOf(resp)
       IN /\ IF reqs[r].args.use_cache
             THEN /\ cache' = StoreTasks(cache, tasks, now)
                  /\ fetchedAt' = reqs[r].tag
                  /\ storedFor' = reqs[r].args.status_filter
             ELSE UNCHANGED <<cache, fetchedAt, storedFor>>
          /\ Answer(r, Finished(reqs[r], resp,
                                IF resp = RemoteError THEN GetTasksError
                                ELSE TaskListResponse(tasks, reqs[r].tag)))
    /\ UNCHANGED <<now, calls, lastMut, ret>>

GetTasksFinish(r, resp) ==
    /\ reqs[r].pc = "replied" /\ reqs[r].op = "list"
    /\ IF resp = RemoteError
       THEN /\ Answer(r, Finished(reqs[r], resp, GetTasksError))
            /\ UNCHANGED <<cache, fetchedAt, storedFor>>
       ELSE LET tasks == TasksOf(resp)
            IN /\ IF reqs[r].args.use_cache
                  THEN /\ cache' = StoreTasks(cache, tasks, now)
                       /\ fetchedAt' = reqs[r].tag
                       /\ storedFor' = reqs[r].args.status_filter
                  ELSE UNCHANGED <<cache, fetchedAt, storedFor>>
               /\ Answer(r, Finished(reqs[r], resp, TaskListResponse(tasks, reqs[r].tag)))
    /\ UNCHANGED <<now, calls, lastMut, ret>>

----------------------------------------------------------------------------
(* POST /api/v1/tasks *)

ValidTaskCreate_Any(task) == TRUE

\* TaskCreate: task_name is required and not empty
ValidTaskCreate(task) == task.task_name # ""

InvalidateOnCreate_Skip(c) == c

\* cache_service.delete("all_tasks")
InvalidateOnCreate(c) == CacheDelete(c, ALL_TASKS)

CreateTaskStart(r, task) ==
    /\ Free(r)
    /\ IF ValidTaskCreate(task)
       THEN Suspend(r, Awaiting("create", task, CreateMessage(task), 0))
       ELSE Answer(r, Answered("create", task, 0, HTTPException(422)))
    /\ UNCHANGED <<cache, now, calls, fetchedAt, storedFor, lastMut, ret>>

CreateTaskFinish(r, resp) ==
    /\ reqs[r].pc = "replied" /\ reqs[r].op = "create"
    /\ IF resp = RemoteError
       THEN /\ Answer(r, Finished(reqs[r], resp, CreateTaskError))
            /\ UNCHANGED <<cache, fetchedAt, storedFor, lastMut>>
       ELSE /\ cache' = InvalidateOnCreate(cache)
            /\ fetchedAt' = Tagged(cache', fetchedAt)
            /\ storedFor' = StoredFor(cache', storedFor)
            /\ lastMut' = Max(lastMut, reqs[r].tag)
            /\ Answer(r, Finished(reqs[r], resp, TaskResponse(201, CreateEcho(reqs[r].args))))
    /\ UNCHANGED <<now, calls, ret>>

----------------------------------------------------------------------------
(* PUT /api/v1/tasks/{task_name} *)

InvalidateOnUpdate_Skip(c) == c

\* cache_service.delete("all_tasks")
InvalidateOnUpdate(c) == CacheDelete(c, ALL_TASKS)

UpdateTaskStart(r, task_name, task_update) ==
    /\ Free(r)
    /\ LET args == [task_name |-> task_name, task_update |-> task_update]
       IN IF UpdateClauses(task_update) = <<>>
          THEN Answer(r, Answered("update", args, 0, HTTPException(400)))
          ELSE Suspend(r, Awaiting("update", args, UpdateMessage(task_name, task_update), 0))
    /\ UNCHANGED <<cache, now, calls, fetchedAt, storedFor, lastMut, ret>>

UpdateTaskFinish(r, resp) ==
    /\ reqs[r].pc = "replied" /\ reqs[r].op = "update"
    /\ IF resp = RemoteError
       THEN /\ Answer(r, Finished(reqs[r], resp, UpdateTaskError))
            /\ UNCHANGED <<cache, fetchedAt, storedFor, lastMut>>
       ELSE /\ cache' = InvalidateOnUpdate(cache)
            /\ fetchedAt' = Tagged(cache', fetchedAt)
            /\ storedFor' = StoredFor(cache', storedFor)
            /\ lastMut' = Max(lastMut, reqs[r].tag)
            /\ Answer(r, Finished(reqs[r], resp, TaskResponse(200, UpdateEcho(reqs[r].args.task_name, reqs[r].args.task_update))))
    /\ UNCHANGED <<now, calls, ret>>

----------------------------------------------------------------------------
(* DELETE /api/v1/tasks/{task_name} *)

\* cache_service.delete("all_tasks")
InvalidateOnDelete(c) == CacheDelete(c, ALL_TASKS)

DeleteTaskStart(r, task_name) ==
    /\ Free(r)
    /\ Suspend(r, Awaiting("delete", [task_name |-> task_name], DeleteMessage(task_name), 0))
    /\ UNCHANGED <<cache, now, calls, fetchedAt, storedFor, lastMut, ret>>

DeleteTaskFinish(r, resp) ==
    /\ reqs[r].pc = "replied" /\ reqs[r].op = "delete"
    /\ IF resp = RemoteError
       THEN /\ Answer(r, Finished(reqs[r], resp, DeleteTaskError))
            /\ UNCHANGED <<cache, fetchedAt, storedFor, lastMut>>
       ELSE /\ cache' = InvalidateOnDelete(cache)
            /\ fetchedAt' = Tagged(cache', fetchedAt)
            /\ storedFor' = StoredFor(cache', storedFor)
            /\ lastMut' = Max(lastMut, reqs[r].tag)
            /\ Answer(r, Finished(reqs[r], resp, TaskResponse(200, DeleteEcho(reqs[r].args.task_name))))
    /\ UNCHANGED <<now, calls, ret>>

----------------------------------------------------------------------------
(* POST /api/v1/message *)

\* cache_service.delete("all_tasks")
InvalidateOnMessage(c) == CacheDelete(c, ALL_TASKS)

SendMessageStart(r, text) ==
    /\ Free(r)
    /\ Suspend(r, Awaiting("message", [message |-> text], text, 0))
    /\ UNCHANGED <<cache, now, calls, fetchedAt, storedFor, lastMut, ret>>

SendMessageFinish(r, resp) ==
    /\ reqs[r].pc = "replied" /\ reqs[r].op = "message"
    /\ IF resp = RemoteError
       THEN /\ Answer(r, Finished(reqs[r], resp, SendMessageError))
            /\ UNCHANGED <<cache, fetchedAt, storedFor>>
       ELSE /\ cache' = IF MightChangeData(reqs[r].args.message)
                        THEN InvalidateOnMessage(cache) ELSE cache
            /\ fetchedAt' = Tagged(cache', fetchedAt)
            /\ storedFor' = StoredFor(cache', storedFor)
            /\ Answer(r, Finished(reqs[r], resp, MessageResponse(resp)))
    /\ UNCHANGED <<now, calls, lastMut, ret>>

----------------------------------------------------------------------------
(* GET /api/v1/stats *)

GetTaskStatsStart(r) ==
    /\ Free(r)
    /\ Suspend(r, Awaiting("stats", <<>>, STATS_MESSAGE, 0))
    /\ UNCHANGED <<cache, now, calls, fetchedAt, storedFor, lastMut, ret>>

GetTaskStatsFinish(r, resp) ==
    /\ reqs[r].pc = "replied" /\ reqs[r].op = "stats"
    /\ Answer(r, Finished(reqs[r], resp, IF resp = RemoteError THEN GetTaskStatsError ELSE Stats(TasksOf(resp))))
    /\ UNCHANGED <<cache, now, calls, fetchedAt, storedFor, lastMut, ret>>

----------------------------------------------------------------------------
(* The server: requests handled concurrently, interleaved at their awaits *)

StartRequest(r) ==
    \/ \E f \in Filters, uc \in BOOLEAN : GetTasksStart(r, f, uc)
    \/ \E task \in CreateBodies : CreateTaskStart(r, task)
    \/ \E n \in TaskNames, u \in UpdateBodies : UpdateTaskStart(r, n, u)
    \/ \E n \in TaskNames : DeleteTaskStart(r, n)
    \/ \E text \in Texts : SendMessageStart(r, text)
    \/ GetTaskStatsStart(r)

Resume(r) ==
    \/ RemoteHandle(r)
    \/ \E resp \in Outcomes : GetTasksFinish(r, resp)
    \/ \E resp \in Outcomes : CreateTaskFinish(r, resp)
    \/ \E resp \in Outcomes : UpdateTaskFinish(r, resp)
    \/ \E resp \in Outcomes : DeleteTaskFinish(r, resp)
    \/ \E resp \in Outcomes : SendMessageFinish(r, resp)
    \/ \E resp \in Outcomes : GetTaskStatsFinish(r, resp)

\* the slots are alike: a new request takes the first free one
FirstFree(r) == Free(r) /\ \A q \in Slots : q < r => ~Free(q)

Next ==
    \/ \E r \in Slots : FirstFree(r) /\ StartRequest(r)
    \/ \E r \in Slots : Resume(r)
    \/ Tick

Spec == Init /\ [][Next]_vars

\* one request at a time: a request starts when no other is in flight
Quiet == \A r \in Slots : Free(r)

SeqNext ==
    \/ Quiet /\ \E r \in Slots : FirstFree(r) /\ StartRequest(r)
    \/ \E r \in Slots : Resume(r)
    \/ Tick

SeqSpec == Init /\ [][SeqNext]_vars

----------------------------------------------------------------------------
(* Claims about the request handlers *)

\* the entry under "all_tasks" has not expired
LiveEntry == ALL_TASKS \in DOMAIN cache /\ now < cache[ALL_TASKS].expires_at

\* this step starts a list request with use_cache=true in slot r, or answers one at once
ListStartsCached(r) ==
    /\ reqs[r].pc = "idle"
    /\ \/ reqs'[r].pc = "awaiting" /\ reqs'[r].op = "list" /\ reqs'[r].args.use_cache
       \/ reqs' = reqs /\ reply' # reply /\ reply'.op = "list" /\ ~reply'.called

\* this step resumes request r of kind op after its remote call and answers it
Finishes(r, op) == reqs[r].pc = "replied" /\ reqs[r].op = op /\ reqs'[r].pc = "idle"

LiveEntryIsServed ==
    [][\A r \in Slots :
        (ListStartsCached(r) /\ LiveEntry) =>
            /\ reqs' = reqs
            /\ reply'.op = "list" /\ ~reply'.called
            /\ reply'.result.tasks = cache[ALL_TASKS].value
      ]_vars

\* C3, as claimed: every list request not served from the cache calls the remote agent
\* once and, when the call succeeds, stores the list under "all_tasks" for 60 seconds
\* and returns it with its length, with use_cache=false as with use_cache=true.
MissAlwaysStores ==
    [][\A r \in Slots :
        (Finishes(r, "list") /\ reply'.resp # RemoteError) =>
            /\ reply'.called /\ reply'.message = ListMessage(reqs[r].args.status_filter)
            /\ reply'.result.status = 200
            /\ reply'.result.tasks = TasksOf(reply'.resp)
            /\ reply'.result.count = Len(reply'.result.tasks)
            /\ ALL_TASKS \in DOMAIN cache'
            /\ cache'[ALL_TASKS] = [value |-> reply'.result.tasks, expires_at |-> now + 60]
      ]_vars

\* C3, amended: every list request not served from the cache calls the remote agent once
\* and, when the call succeeds, returns the list with its length; it stores the list
\* under "all_tasks" for 60 seconds when use_cache=true and leaves the cache as it is
\* when use_cache=false.
MissStoresWhenUsingCache ==
    [][\A r \in Slots :
        (Finishes(r, "list") /\ reply'.resp # RemoteError) =>
            /\ reply'.called /\ reply'.message = ListMessage(reqs[r].args.status_filter)
            /\ reply'.result.status = 200
            /\ reply'.result.tasks = TasksOf(reply'.resp)
            /\ reply'.result.count = Len(reply'.result.tasks)
            /\ IF reqs[r].args.use_cache
               THEN /\ ALL_TASKS \in DOMAIN cache'
                    /\ cache'[ALL_TASKS] =
                        [value |-> reply'.result.tasks, expires_at |-> now + 60]
               ELSE cache' = cache
      ]_vars

\* both kinds of miss were answered: the reply is a fetched list of one task or more,
\* and the cache holds another list, which a use_cache=false request left alone
BypassLeftCacheAlone ==
    /\ reply.op = "list" /\ reply.called /\ ~reply.args.use_cache
    /\ reply.result.status = 200 /\ reply.result.count > 0
    /\ ALL_TASKS \in DOMAIN cache /\ cache[ALL_TASKS].value # reply.result.tasks

\* the update supplies no field: each is missing or empty
NoFieldSupplied(u) == \A f \in {"status", "description", "deadline"} : u[f] \in {NoneS, ""}

\* C7: an update that supplies none of status, description, deadline (each missing or
\* empty) is answered 400; handling it calls the remote agent never and leaves the cache
\* unchanged.
EmptyUpdateRejected ==
    [][ /\ \A r \in Slots :
            (reqs'[r] # reqs[r] /\ reqs'[r].pc = "awaiting" /\ reqs'[r].op = "update")
                => ~NoFieldSupplied(reqs'[r].args.task_update)
        /\ (reply' # reply /\ reply'.op = "update"
                /\ NoFieldSupplied(reply'.args.task_update)) =>
            /\ reply'.result.status = 400 /\ ~reply'.called
            /\ cache' = cache /\ calls' = calls /\ reqs' = reqs
      ]_vars

\* an update whose only field is an empty description was answered 400 while the cache
\* held an entry
EmptyUpdateAnswered ==
    /\ reply.op = "update" /\ reply.result.status = 400
    /\ reply.args.task_update.description = ""
    /\ ALL_TASKS \in DOMAIN cache

\* C8: a create whose task_name is empty is answered 422; handling it calls the remote
\* agent never and leaves the cache unchanged.
EmptyNameRejected ==
    [][ /\ \A r \in Slots :
            (reqs'[r] # reqs[r] /\ reqs'[r].pc = "awaiting" /\ reqs'[r].op = "create")
                => reqs'[r].args.task_name # ""
        /\ (reply' # reply /\ reply'.op = "create" /\ reply'.args.task_name = "") =>
            /\ reply'.result.status = 422 /\ ~reply'.called
            /\ cache' = cache /\ calls' = calls /\ reqs' = reqs
      ]_vars

\* a create with an empty name was answered 422 while the cache held an entry
EmptyNameAnswered ==
    /\ reply.op = "create" /\ reply.args.task_name = "" /\ reply.result.status = 422
    /\ ALL_TASKS \in DOMAIN cache

\* the text holds one of the six terms, in any case
HoldsKeyword(text) ==
    \E n \in 1..Len(action_keywords) : Contains(Lower(text), action_keywords[n])

\* C9: once a free-form message holding create, update, delete, add, remove or change
\* (in any case) has been answered, whatever came of its remote call, no entry is left
\* under "all_tasks"; a message holding none of them leaves the cache unchanged.
KeywordMessageInvalidates ==
    [][\A r \in Slots :
        Finishes(r, "message") =>
            IF HoldsKeyword(reqs[r].args.message)
            THEN ALL_TASKS \notin DOMAIN cache'
            ELSE cache' = cache
      ]_vars

\* C10: a request whose remote call fails is answered 500, be it a list, create, update,
\* delete, free-form message or stats request, never with a success response.
RemoteFailureIs500 ==
    (reply.op # "none" /\ reply.resp = RemoteError) =>
        /\ reply.result.status = 500
        /\ DOMAIN reply.result = {"status"}

\* a list request whose remote call failed was answered 500
ListFailed ==
    reply.op = "list" /\ reply.resp = RemoteError /\ reply.result.status = 500

\* request r is a list request waiting for its remote call or about to resume from it
ListInFlight(r) == reqs[r].pc \in {"awaiting", "replied"} /\ reqs[r].op = "list"

\* C11: a list request whose remote call fails leaves the cache as it was when the call
\* was issued: from the await to the 500 answer no entry is created, overwritten or
\* removed under "all_tasks" (or any other key).
FailedListLeavesCache ==
    [][\A r \in Slots :
        (ListInFlight(r) /\ ~(Finishes(r, "list") /\ reply'.resp # RemoteError))
            => cache' = cache
      ]_vars

\* a list request with use_cache=true missed on an entry it found, its remote call
\* failed, and the entry is still held
FailedListKeptEntry ==
    /\ reply.op = "list" /\ reply.args.use_cache /\ reply.called
    /\ reply.resp = RemoteError /\ reply.result.status = 500
    /\ ALL_TASKS \in DOMAIN cache

Mutations == {"create", "update", "delete"}

\* C12: once a create, update or delete request that passed validation has been
\* answered after its remote call, with success or with an error, no entry is left
\* under "all_tasks"; up to its remote call the request leaves the cache alone.
MutationAlwaysInvalidates ==
    [][\A r \in Slots :
        /\ (reqs[r].pc = "idle" /\ reqs'[r].pc = "awaiting" /\ reqs'[r].op \in Mutations)
                => cache' = cache
        /\ (\E op \in Mutations : Finishes(r, op)) => ALL_TASKS \notin DOMAIN cache'
      ]_vars

\* C13: a stats request always calls the remote agent with "Show me all tasks", also
\* while a live entry is held under "all_tasks", and from its start to its answer the
\* cache is left as it is: no entry read out, written or deleted.
StatsBypassesCache ==
    [][\A r \in Slots :
        /\ (reqs[r].pc = "idle" /\ reqs'[r] # reqs[r] /\ reqs'[r].op = "stats") =>
                /\ reqs'[r].pc = "awaiting"
                /\ reqs'[r].message = <<"Show me all tasks">>
                /\ cache' = cache
        /\ (reqs[r].pc \in {"awaiting", "replied"} /\ reqs[r].op = "stats") => cache' = cache
        /\ (reply' # reply /\ reply'.op = "stats") =>
                reply'.called /\ reply'.message = <<"Show me all tasks">>
      ]_vars

\* statistics were answered after a remote call while a live, non-empty entry was held
StatsFetchedDespiteLiveEntry ==
    /\ reply.op = "stats" /\ reply.called /\ reply.result.status = 200
    /\ LiveEntry /\ cache[ALL_TASKS].value # <<>>

----------------------------------------------------------------------------
(* Claims about the statistics, under StatsSpec *)

\* how many tasks of the list have status st, counted task by task
RECURSIVE Occurrences(_, _)
Occurrences(tasks, st) ==
    IF tasks = <<>> THEN 0
    ELSE (IF Head(tasks).status = st THEN 1 ELSE 0) + Occurrences(Tail(tasks), st)

Abs(x) == IF x < 0 THEN 0 - x ELSE x

\* C14: for every task list, stats reports total_tasks = the list's length, for each of
\* TODO, IN PROGRESS, DONE the number of tasks with that status, and completion_rate =
\* done / total * 100 rounded to two decimals (here in hundredths of a percent: the
\* nearest one) when total > 0 and 0 for the empty list; one task of each status
\* gives 3, 1/1/1 and 33.33.
StatsAreRight ==
    ret.op = "stats" =>
        LET tasks == ret.tasks
            out == ret.out
            done == Occurrences(tasks, "DONE")
        IN /\ out.total_tasks = Len(tasks)
           /\ DOMAIN out.by_status = {"TODO", "IN PROGRESS", "DONE"}
           /\ \A st \in {"TODO", "IN PROGRESS", "DONE"} :
                out.by_status[st] = Occurrences(tasks, st)
           /\ IF Len(tasks) = 0 THEN out.completion_rate = 0
              ELSE 2 * Abs(out.completion_rate * Len(tasks) - 10000 * done) <= Len(tasks)
           /\ tasks = <<[status |-> "TODO"], [status |-> "IN PROGRESS"], [status |-> "DONE"]>>
                => /\ out.total_tasks = 3
                   /\ out.by_status = [st \in {"TODO", "IN PROGRESS", "DONE"} |-> 1]
                   /\ out.completion_rate = 3333

\* the statistics of one task of each status: 3 tasks, 33.33 percent completed
StatsOfOneEach ==
    /\ ret.op = "stats"
    /\ ret.tasks = <<[status |-> "TODO"], [status |-> "IN PROGRESS"], [status |-> "DONE"]>>
    /\ ret.out.total_tasks = 3 /\ ret.out.completion_rate = 3333

----------------------------------------------------------------------------
(* Claims about the instructions, under MsgSpec *)

FieldOrder == <<"status", "description", "deadline">>

\* the piece that opens the clause of each field
CreateMarks ==
    [status |-> " with status '", description |-> " and description '",
     deadline |-> " with deadline '"]
UpdateMarks ==
    [status |-> "status to '", description |-> "description to '",
     deadline |-> "deadline to '"]

Places(message, piece) == {i \in 1..Len(message) : message[i] = piece}

\* the message holds the clause of f, quoting value[f], once for each f that is present
\* and never for another f, and the clauses follow each other as in FieldOrder
ClausesInOrder(message, marks, present, value) ==
    /\ \A f \in OptionalFields :
        IF present[f]
        THEN \E i \in 1..(Len(message) - 2) :
                /\ Places(message, marks[f]) = {i}
                /\ message[i + 1] = value[f] /\ message[i + 2] = "'"
        ELSE Places(message, marks[f]) = {}
    /\ \A m, n \in 1..3 :
        (m < n /\ present[FieldOrder[m]] /\ present[FieldOrder[n]]) =>
            \A i \in Places(message, marks[FieldOrder[m]]),
               j \in Places(message, marks[FieldOrder[n]]) : i < j

\* the body gives f a value that is neither null nor empty
Supplied(body, f) == Gives(body, f) /\ Field(body, f, NoneS) \notin {NoneS, ""}

DeleteEndsWithConfirmation ==
    ret.op = "delete" => ret.message[Len(ret.message)] = "' - yes, I'm sure"

\* C15, as claimed: the create and the update instruction hold one clause per supplied
\* (non-empty) optional field and none for an unsupplied one, in the order status,
\* description, deadline whatever the order the body gave them in; the delete
\* instruction ends with "- yes, I'm sure".
ClausesOnlyForSupplied ==
    /\ ret.op \in {"create", "update"} =>
            ClausesInOrder(ret.message,
                           IF ret.op = "create" THEN CreateMarks ELSE UpdateMarks,
                           [f \in OptionalFields |-> Supplied(ret.body, f)],
                           [f \in OptionalFields |-> Field(ret.body, f, NoneS)])
    /\ DeleteEndsWithConfirmation

\* C15, amended: as claimed, but a create whose body does not give status holds the
\* clause of the default status, " with status 'TODO'", ahead of the other clauses.
ClausesForSuppliedOrDefault ==
    /\ ret.op = "create" =>
            ClausesInOrder(ret.message, CreateMarks,
                           [f \in OptionalFields |->
                                Supplied(ret.body, f)
                                    \/ (f = "status" /\ ~Gives(ret.body, "status"))],
                           [f \in OptionalFields |->
                                Field(ret.body, f, IF f = "status" THEN "TODO" ELSE NoneS)])
    /\ ret.op = "update" =>
            ClausesInOrder(ret.message, UpdateMarks,
                           [f \in OptionalFields |-> Supplied(ret.body, f)],
                           [f \in OptionalFields |-> Field(ret.body, f, NoneS)])
    /\ DeleteEndsWithConfirmation

\* a create whose body gave the deadline, then the description, and no status
CreateGivenBackwards ==
    /\ ret.op = "create"
    /\ ret.body = << <<"deadline", "2025-12-31">>, <<"description", "d1">> >>
    /\ ret.message = <<"Create a new task called '", "T1", "'", " with status '", "TODO", "'",
                       " and description '", "d1", "'", " with deadline '", "2025-12-31", "'">>

MutationEchoesWhateverRemoteSays ==
    [][\A r \in Slots :
        ((\E op \in Mutations : Finishes(r, op)) /\ reply'.resp # RemoteError) =>
            LET args == reqs[r].args
                data == reply'.result.data
            IN /\ reply'.result.success = TRUE
               /\ reply'.result.status = (IF reqs[r].op = "create" THEN 201 ELSE 200)
               /\ reqs[r].op = "create" => data = args
               /\ reqs[r].op = "update" =>
                    /\ DOMAIN data = {"task_name"} \cup
                            {f \in OptionalFields : args.task_update[f] # NoneS}
                    /\ data.task_name = args.task_name
                    /\ \A f \in DOMAIN data \ {"task_name"} : data[f] = args.task_update[f]
               /\ reqs[r].op = "delete" => data = [task_name |-> args.task_name]
               /\ ALL_TASKS \notin DOMAIN cache'
      ]_vars

\* an update of the status alone, which the remote agent answered with success=false,
\* was answered with success=true and the echo of the name and the status
UpdateEchoedDespiteRemoteNo ==
    /\ reply.op = "update" /\ reply.resp = [kind |-> "success", success |-> FALSE]
    /\ reply.result.status = 200 /\ reply.result.success
    /\ reply.result.data = [task_name |-> "T1", status |-> "DONE"]
    /\ ALL_TASKS \notin DOMAIN cache

----------------------------------------------------------------------------
(* Claims about requests handled concurrently, under Spec *)

\* the entry under "all_tasks" is a snapshot fetched before the latest mutation
StaleSnapshot == ALL_TASKS \in DOMAIN cache /\ fetchedAt < lastMut

\* C16, as claimed: under concurrent requests, once a mutation has been answered with
\* success and the list requests in flight have finished, the cache holds no snapshot
\* fetched before the mutation was applied.
NoStaleSnapshotOnceQuiet ==
    (lastMut > 0 /\ \A r \in Slots : ~ListInFlight(r)) => ~StaleSnapshot

\* C16, amended: the answer of a successful mutation leaves no entry under "all_tasks",
\* and a snapshot fetched before the latest mutation is stored afterwards only by a list
\* request that had started (had passed the cache check) before that mutation was
\* answered.
StaleOnlyFromListInFlight ==
    [][\A r \in Slots :
        /\ ((\E op \in Mutations : Finishes(r, op)) /\ reply'.resp # RemoteError)
                => ALL_TASKS \notin DOMAIN cache'
        /\ (Finishes(r, "list") /\ ~StaleSnapshot /\ StaleSnapshot')
                => reqs[r].seen < lastMut /\ fetchedAt' = reqs[r].tag
        /\ (~Finishes(r, "list") /\ ~(\E op \in Mutations : Finishes(r, op)))
                => (StaleSnapshot' => StaleSnapshot \/ \E q \in Slots : Finishes(q, "list"))
      ]_vars

\* the race has happened: no request is in flight, the mutation was answered with
\* success, and the list request answered last, which had started before the mutation
\* was answered, has left its older snapshot in the cache
StaleSnapshotLeftByRace ==
    /\ Quiet /\ StaleSnapshot /\ fetchedAt > 0
    /\ reply.op = "list" /\ reply.called /\ reply.seen < lastMut
    /\ reply.result.status = 200 /\ reply.result.fetched = fetchedAt

----------------------------------------------------------------------------
(* Claims about CacheService, under CacheSpec *)

\* C4: set(k, v, ttl) with ttl > 0 followed at once by get(k) (no time passing, no
\* delete or clear in between) returns v, also when k held another entry before.
SetThenGetReturnsValue ==
    (ret.op = "get" /\ ret.after.op = "set" /\ ret.after.key = ret.key /\ ret.after.ttl > 0)
        => ret.out = Some(ret.after.value)

\* a get answered v right after a set of v that overwrote a different value
SetOverwroteThenGet ==
    /\ ret.op = "get" /\ ret.after.op = "set" /\ ret.after.key = ret.key
    /\ ret.after.ttl > 0
    /\ ret.after.over
    /\ ret.out = Some(ret.after.value)

\* C5: get(k) returns None whenever the entry's expires_at is not in the future:
\* after a set with ttl <= 0, after the expiry was forced into the past, after the
\* clock reached or passed expires_at.
ExpiredGetReturnsNone ==
    /\ (ret.op = "get" /\ ret.exp.some /\ ret.exp.value <= ret.at) => ret.out = None
    /\ (ret.op = "get" /\ ret.after.op = "set" /\ ret.after.key = ret.key
            /\ ret.after.ttl <= 0) => ret.out = None
    /\ (ret.op = "get" /\ ret.after.op = "force" /\ ret.after.key = ret.key)
            => ret.out = None

\* a get answered None for an entry whose expires_at is exactly now
GetAtExpiryWasNone ==
    ret.op = "get" /\ ret.exp = Some(ret.at) /\ ret.out = None

\* C6: delete(k) does not fail whatever k held (nothing, a live entry, an expired one);
\* a following get(k) returns None; the entries under the other keys are unchanged.
DeleteThenGetAbsent ==
    [][ /\ \A k \in Keys :
            (ret'.op = "delete" /\ ret'.key = k) =>
                /\ k \notin DOMAIN cache'
                /\ \A j \in Keys \ {k} :
                    /\ j \in DOMAIN cache' <=> j \in DOMAIN cache
                    /\ j \in DOMAIN cache => cache'[j] = cache[j]
        /\ (ret'.op = "get" /\ ret'.after.op = "delete" /\ ret'.after.key = ret'.key)
                => ret'.out = None
      ]_vars

\* a get answered None right after the delete of an expired entry, another key kept
DeletedExpiredThenGet ==
    /\ ret.op = "get" /\ ret.after.op = "delete" /\ ret.after.key = ret.key
    /\ ret.after.prior = "expired"
    /\ ret.out = None
    /\ DOMAIN cache # {}

====
